---- MODULE Spec2Model ----
(***************************************************************************)
(* Model of the workout view of AlanBui1/fitness-app:                      *)
(*   - the shared camera stream of WebcamFeed.tsx (module-level            *)
(*     globalStream / streamInitPromise, getStream, initializeWebcam, the  *)
(*     two effects of the component) as it is driven by the native-video   *)
(*     VideoContainer (split feed always mounted, mini feed mounted in     *)
(*     the mini layout);                                                   *)
(*   - the estimation loop of PoseDetection.tsx;                           *)
(*   - the playback handlers of VideoContainer.tsx, and the               *)
(*     InstructorVideo of WebcamFeed.tsx under them;                       *)
(*   - the fullscreen toggle of VideoContainer.tsx.                        *)
(* One JavaScript task (an event handler or a React commit together with   *)
(* the microtasks it leaves behind) is one action.                         *)
(***************************************************************************)
EXTENDS Integers, FiniteSets, Sequences, TLC

(* ------------------------------ bounds --------------------------------- *)

\* getUserMedia calls the model follows; request r, when it succeeds,
\* yields stream r.
MaxRequests == 3

Requests == 1..MaxRequests

\* PoseDetection instances mounted in one run, detectPose closures alive at
\* once, and distinct video elements a parent can pass.
MaxMounts == 2
MaxLoops == 2
NumVideos == 2

\* The duration of the instructor video in seconds, the step of its clock,
\* how far outside [0, duration] a seek target may lie, and the state-change
\* notifications of the embedded player that may be waiting for delivery.
MediaDuration == 120
ClockStep == 60
SeekSlack == 10
MaxEvents == 2

\* Fullscreen toggles awaiting the browser, and fullscreenchange
\* notifications awaiting delivery.
MaxToggles == 2
MaxChanges == 2

\* The resolutions a video element may report.
NumResolutions == 2

\* How far from the threshold, in hundredths, the scores of the poses lie.
ScoreSpread == 1

\* The confidence a keypoint must exceed to be drawn, in hundredths
\* (PoseDetection.tsx:127, 143-144).
ScoreThreshold == 30

\* Keydown events the model follows.
MaxKeys == 4

\* The seek of the arrow keys (VideoContainer.tsx:462, 466).
SeekStep == 5

\* The end of InstructorVideo's slider while it has no duration
\* (WebcamFeed.tsx:278).
SliderDefaultMax == 100

SeekTargets == {0 - SeekSlack, 0, ClockStep, MediaDuration, MediaDuration + SeekSlack}

Instances == 1..MaxMounts
Loops == 1..MaxLoops
Videos == 0..NumVideos

Resolutions == 1..NumResolutions

\* getUserMedia requests a WebcamFeed with a stream of its own can make.
MaxAcquisitions == 4

Acquisitions == 1..MaxAcquisitions

\* The two WebcamFeed elements VideoContainer creates.
Feeds == {"split", "mini"}

VARIABLES
    \* VideoContainer state (VideoContainer.tsx:298-308) and its prop
    layout, isCameraEnabled, webcamError,
    \* WebcamFeed.tsx module-level state (lines 15-16); 0 is null
    globalStream, streamInitPromise,
    \* the page: "mounted" while VideoContainer is in the tree, "unmounted"
    \* while it is not, "unloaded" once the window has gone
    page,
    \* the browser: every getUserMedia promise and every stream's tracks
    reqState, trackState,
    \* the WebcamFeed instances
    feed,
    \* history: what the callers of each acquisition received, and who
    \* called while it was in flight
    outcomes, joined,
    \* history: the last thing that happened to the capture, and the
    \* WebcamFeed position it happened at
    capOp,
    \* PoseDetection: mounted or not, its videoElement prop (0 is null), the
    \* number of the current instance, each instance's createDetector
    \* promise, detectorRef.current and canvas, the detectPose closures, the
    \* closure the current effect's cleanup belongs to, and the last thing
    \* a closure did
    pdMounted, videoElement, inst, detector, detectorRef, overlay, loops,
    effectLoop, poseAct,
    \* which VideoContainer is in use: "native", the one of
    \* VideoContainer.tsx:293-640 with videoRef bound to a video element that
    \* reports through the five callbacks of lines 527-531; "youtube", the
    \* one over the embedded player (VideoContainer.tsx:17-272);
    \* "instructor", the one of lines 293-640 over the InstructorVideo of
    \* WebcamFeed.tsx:193-319
    backend,
    \* playback state of the container (VideoContainer.tsx:23-32, 300-309)
    isPlaying, currentTime, duration, videoError, isEnded, isVideoLoading,
    youtubeVideoId, playerRef,
    \* the media element or embedded player
    media,
    \* the state of InstructorVideo (WebcamFeed.tsx:210-212)
    iv,
    \* history: the last playback operation, and the position a manual seek
    \* asked for since the media clock last moved (-1: none)
    lastOp, seekTick,
    \* isFullscreen of the container (VideoContainer.tsx:31, 308); whether
    \* document.fullscreenElement is non-null; the requestFullscreen and
    \* exitFullscreen promises not yet settled, oldest first; the number of
    \* fullscreenchange events not yet delivered
    isFullscreen, fsElement, fsPending, fsEvents,
    \* history: the last fullscreen step, and what last changed
    \* document.fullscreenElement
    fsOp,
    \* showGrid of the container (VideoContainer.tsx:22, 299)
    showGrid,
    \* the keypoints of the pose given to drawSkeleton: the score of each
    \* name in hundredths, -1 where the pose has no such keypoint or the
    \* keypoint has no score; and what has been drawn on the canvas
    pose, drawn,
    \* videoWidth x videoHeight of each video element, as the number of a
    \* resolution (0: not known, both are 0), and width x height of the
    \* canvas of the mounted PoseDetection (-1: the size a canvas is
    \* created with)
    videoSize, canvasSize,
    \* history: the last keydown event, whether the focus was inside the
    \* container, and the number of keydown events so far
    keyOp,
    \* one WebcamFeed of the variant that keeps a stream of its own
    \* (VideoContainer.tsx:655-747), with the getUserMedia requests it made
    \* and the tracks of their streams
    wf

captureVars == <<layout, isCameraEnabled, webcamError, globalStream,
                 streamInitPromise, page, reqState, trackState, feed, outcomes, joined,
                 capOp>>

overlayVars == <<pdMounted, videoElement, inst, detector, detectorRef, overlay,
                 loops, effectLoop, poseAct>>

playbackVars == <<backend, isPlaying, currentTime, duration, videoError, isEnded,
                  isVideoLoading, youtubeVideoId, playerRef, media, iv, lastOp,
                  seekTick>>

fullscreenVars == <<isFullscreen, fsElement, fsPending, fsEvents, fsOp>>

viewVars == <<fullscreenVars, showGrid, keyOp>>

drawVars == <<pose, drawn>>

canvasVars == <<videoSize, canvasSize>>

instanceVars == <<wf>>

vars == <<captureVars, overlayVars, playbackVars, viewVars, drawVars, canvasVars,
          instanceVars>>

\* What the handlers of each component do not touch.
notCapture == <<overlayVars, playbackVars, viewVars, drawVars, canvasVars, instanceVars>>
notOverlay == <<captureVars, playbackVars, viewVars, drawVars, instanceVars>>
notPlayback == <<captureVars, overlayVars, viewVars, drawVars, canvasVars, instanceVars>>
notView == <<captureVars, overlayVars, playbackVars, drawVars, canvasVars, instanceVars>>
notDraw == <<captureVars, overlayVars, playbackVars, viewVars, canvasVars, instanceVars>>
notInstance == <<captureVars, overlayVars, playbackVars, viewVars, drawVars, canvasVars>>

Min(S) == CHOOSE x \in S : \A y \in S : x <= y

(* ------------------------- capture: WebcamFeed -------------------------- *)

\* A WebcamFeed position with no instance mounted, and the state an
\* instance is constructed with (useState defaults, WebcamFeed.tsx:46-49).
\*   srcObject   videoRef.current.srcObject (0 is null)
\*   metaPending the element has a stream whose loadedmetadata is to come
\*   metaWaiter  an initializeWebcam call is suspended at line 72
\*   awaiting    <<request, era>> of the calls suspended at line 64
\*   orphaned    the same for calls made by instances since unmounted
NoFeed ==
    [mounted |-> FALSE, isEnabled |-> FALSE, isLoading |-> TRUE,
     error |-> FALSE, streamReady |-> FALSE, srcObject |-> 0,
     metaPending |-> FALSE, metaWaiter |-> FALSE,
     awaiting |-> {}, orphaned |-> {}]

\* The state the handlers of one task work on.
World ==
    [layout |-> layout, cam |-> isCameraEnabled, webcamError |-> webcamError,
     globalStream |-> globalStream, streamInitPromise |-> streamInitPromise,
     reqState |-> reqState, trackState |-> trackState, feed |-> feed,
     outcomes |-> outcomes, joined |-> joined, overflow |-> FALSE,
     page |-> page, op |-> capOp]

CapOp(name, f) == [op |-> name, feed |-> f]

\* Nothing runs in a page that has unloaded.
InstallWorld(W) ==
    /\ page # "unloaded"
    /\ ~W.overflow
    /\ page' = W.page
    /\ capOp' = W.op
    /\ layout' = W.layout
    /\ isCameraEnabled' = W.cam
    /\ webcamError' = W.webcamError
    /\ globalStream' = W.globalStream
    /\ streamInitPromise' = W.streamInitPromise
    /\ reqState' = W.reqState
    /\ trackState' = W.trackState
    /\ feed' = W.feed
    /\ outcomes' = W.outcomes
    /\ joined' = W.joined

Install(W) == InstallWorld(W) /\ UNCHANGED notCapture

PendingIn(W) == {r \in Requests : W.reqState[r] = "pending"}
FreshIn(W) == {r \in Requests : W.reqState[r] = "unused"}

\* The acquisition era of a call that ends up awaiting promise p: the oldest
\* request still in flight when the call is made, else p itself.
EraOf(W, p) == IF PendingIn(W) # {} THEN Min(PendingIn(W)) ELSE p

\* The caller f is suspended on promise p.
Await(W, f, p) ==
    LET e == EraOf(W, p) IN
    [W EXCEPT !.feed[f].awaiting = @ \cup {<<p, e>>},
              !.joined[e] = IF W.reqState[p] = "pending" \/ PendingIn(W) # {}
                            THEN @ \cup {f} ELSE @]

\* Mutant of getStream: line 19 dropped, every call asks the hardware.
getStream_NoDedup(W, f) ==
    IF FreshIn(W) = {}
    THEN [W EXCEPT !.overflow = TRUE]
    ELSE LET r == Min(FreshIn(W)) IN
         Await([W EXCEPT !.reqState[r] = "pending", !.streamInitPromise = r], f, r)

\* getStream up to its suspension (WebcamFeed.tsx:18-32).
getStream(W, f) ==
    IF W.streamInitPromise # 0
    THEN Await(W, f, W.streamInitPromise)
    ELSE IF FreshIn(W) = {}
    THEN [W EXCEPT !.overflow = TRUE]
    ELSE LET r == Min(FreshIn(W)) IN
         Await([W EXCEPT !.reqState[r] = "pending", !.streamInitPromise = r], f, r)

\* Mutant of getStreamSettled: line 35 dropped, the rejected promise stays.
getStreamSettled_KeepsRejected(W, r, ok) ==
    IF ok THEN [W EXCEPT !.globalStream = r]
    ELSE W

\* getStream's own continuation, run by the call that made request r
\* (WebcamFeed.tsx:32-37).
getStreamSettled(W, r, ok) ==
    IF ok THEN [W EXCEPT !.globalStream = r]
    ELSE [W EXCEPT !.streamInitPromise = 0]

\* initializeWebcam after the await of line 64, for every call of position f
\* that awaits request r (WebcamFeed.tsx:66-87).  Calls of unmounted
\* instances find videoRef.current null and their setState calls do nothing,
\* but their onError still reaches the container.
initializeWebcamResumed(W, f, r, ok) ==
    LET mine == {e \in W.feed[f].awaiting : e[1] = r}
        gone == {e \in W.feed[f].orphaned : e[1] = r}
        eras == {e[2] : e \in mine \cup gone}
        got  == IF ok THEN <<"stream", r>> ELSE <<"error", r>>
        W1 == [W EXCEPT !.feed[f].awaiting = @ \ mine,
                        !.feed[f].orphaned = @ \ gone,
                        !.outcomes = [x \in Requests |->
                                        IF x \in eras THEN @[x] \cup {got} ELSE @[x]]]
    IN  IF mine \cup gone = {} THEN W
        ELSE IF ok
        THEN IF mine # {} /\ W1.feed[f].mounted /\ W1.trackState[r] = "live"
             THEN [W1 EXCEPT !.feed[f].srcObject = r,
                             !.feed[f].metaPending = TRUE,
                             !.feed[f].metaWaiter = TRUE]
             ELSE W1
        ELSE IF mine # {}
             THEN [W1 EXCEPT !.feed[f].error = TRUE,
                             !.feed[f].isLoading = FALSE,
                             !.webcamError = TRUE]
             ELSE [W1 EXCEPT !.webcamError = TRUE]

\* initializeWebcam of the instance at f, with the isEnabled of its latest
\* render, up to the end of the task (WebcamFeed.tsx:51-64; a promise that
\* has already resolved resumes the call in the same task).
initializeWebcam(W, f) ==
    LET W1 == [W EXCEPT !.feed[f].isLoading = TRUE, !.feed[f].error = FALSE]
    IN  IF ~W1.feed[f].isEnabled
        THEN [W1 EXCEPT !.feed[f].srcObject = 0,
                        !.feed[f].metaPending = FALSE,
                        !.feed[f].isLoading = FALSE]
        ELSE LET W2 == getStream(W1, f)
                 settled == {e[1] : e \in W2.feed[f].awaiting} \ PendingIn(W2)
             IN  IF W2.overflow \/ settled = {} THEN W2
                 ELSE LET p == Min(settled) IN
                      initializeWebcamResumed(W2, f, p, W2.reqState[p] = "resolved")

\* cleanup (WebcamFeed.tsx:110-118).
cleanup(W) ==
    IF W.globalStream # 0
    THEN [W EXCEPT !.trackState[W.globalStream] = "stopped",
                   !.globalStream = 0,
                   !.streamInitPromise = 0]
    ELSE W

(* ------------------- capture: VideoContainer's render ------------------- *)

\* Which WebcamFeed elements VideoContainer renders, and with which
\* isEnabled (VideoContainer.tsx:312-335, 592-607).
wantMounted(W, f) ==
    /\ W.page = "mounted"
    /\ IF f = "split" THEN TRUE
       ELSE W.layout = "mini" /\ W.cam /\ ~W.webcamError

wantEnabled(W, f) ==
    IF f = "split" THEN W.cam /\ W.layout = "split"
    ELSE W.cam /\ W.layout = "mini"

\* React's commit, destroy phase, for position f: an unmounting instance runs
\* the cleanups of both effects (WebcamFeed.tsx:100-105, 121-124; its ref is
\* already detached), an instance whose isEnabled changed runs the cleanup
\* of the first.
effectCleanups(W, f) ==
    IF W.feed[f].mounted /\ ~wantMounted(W, f)
    THEN LET W1 == cleanup(W) IN
         [W1 EXCEPT !.feed[f] =
             [NoFeed EXCEPT !.orphaned = W.feed[f].orphaned \cup W.feed[f].awaiting]]
    ELSE IF W.feed[f].mounted /\ wantEnabled(W, f) # W.feed[f].isEnabled
    THEN [W EXCEPT !.feed[f].srcObject = 0, !.feed[f].metaPending = FALSE]
    ELSE W

\* React's commit, create phase, for position f (WebcamFeed.tsx:90-98): a
\* new instance, or one whose isEnabled changed, runs init.  Before is the
\* state the commit started from.
effectCreates(Before, W, f) ==
    IF wantMounted(W, f) /\ ~Before.feed[f].mounted
    THEN initializeWebcam(
             [W EXCEPT !.feed[f] = [NoFeed EXCEPT !.mounted = TRUE,
                                                  !.isEnabled = wantEnabled(W, f),
                                                  !.orphaned = W.feed[f].orphaned]], f)
    ELSE IF wantMounted(W, f) /\ wantEnabled(W, f) # Before.feed[f].isEnabled
    THEN initializeWebcam([W EXCEPT !.feed[f].isEnabled = wantEnabled(W, f)], f)
    ELSE W

\* A re-render of VideoContainer and its commit: every cleanup, then every
\* effect, in tree order.
Commit(W) ==
    LET D == effectCleanups(effectCleanups(W, "split"), "mini")
        C1 == effectCreates(W, D, "split")
    IN  IF C1.overflow THEN C1 ELSE effectCreates(W, C1, "mini")

(* --------------------------- capture: actions --------------------------- *)

\* setLayout (VideoContainer.tsx:486, 611, 629-631).
ToggleLayout ==
    /\ page = "mounted"
    /\ Install(Commit([World EXCEPT !.layout = IF layout = "split" THEN "mini" ELSE "split",
                                   !.op = CapOp("layout", "none")]))

\* The parent changes the isCameraEnabled prop (VideoContainer.tsx:295).
SetCameraEnabled ==
    /\ page = "mounted"
    /\ Install(Commit([World EXCEPT !.cam = ~isCameraEnabled,
                                   !.op = CapOp("camera", "none")]))

\* The browser settles getUserMedia request r; the microtasks that follow
\* resume getStream and every suspended initializeWebcam, and the container
\* re-renders if an onError reached it.
SettleRequest(r, ok) ==
    /\ reqState[r] = "pending"
    /\ LET W0 == [World EXCEPT !.reqState[r] = IF ok THEN "resolved" ELSE "rejected",
                               !.trackState[r] = IF ok THEN "live" ELSE "none",
                               !.op = CapOp(IF ok THEN "resolved" ELSE "rejected", "none")]
           W1 == getStreamSettled(W0, r, ok)
           W2 == initializeWebcamResumed(W1, "split", r, ok)
           W3 == initializeWebcamResumed(W2, "mini", r, ok)
       IN  Install(Commit(W3))

\* The video element of f reports loadedmetadata; the call suspended at
\* WebcamFeed.tsx:72 goes on to lines 77-79.
LoadedMetadata(f) ==
    /\ feed[f].mounted
    /\ feed[f].metaPending
    /\ feed[f].srcObject # 0
    /\ trackState[feed[f].srcObject] = "live"
    /\ page # "unloaded"
    /\ capOp' = CapOp("loadedmetadata", f)
    /\ feed' = [feed EXCEPT ![f].metaPending = FALSE,
                            ![f].metaWaiter = FALSE,
                            ![f].isLoading = IF feed[f].metaWaiter THEN FALSE ELSE @,
                            ![f].streamReady = IF feed[f].metaWaiter THEN TRUE ELSE @]
    /\ UNCHANGED <<layout, isCameraEnabled, webcamError, globalStream,
                   streamInitPromise, page, reqState, trackState, outcomes, joined>>
    /\ UNCHANGED notCapture

\* handleRetry, bound to the button of the error panel (WebcamFeed.tsx:127-129,
\* 164-186).
handleRetry(f) ==
    /\ feed[f].mounted
    /\ feed[f].error
    /\ Install(initializeWebcam([World EXCEPT !.op = CapOp("retry", f)], f))

\* The parent takes VideoContainer out of the tree: every WebcamFeed
\* unmounts and runs the cleanups of its effects (WebcamFeed.tsx:100-105,
\* 121-124).
UnmountContainer ==
    /\ page = "mounted"
    /\ Install(Commit([World EXCEPT !.page = "unmounted",
                                   !.op = CapOp("unmount", "none")]))

\* The parent renders VideoContainer again, with the same isCameraEnabled:
\* its state starts from the defaults (VideoContainer.tsx:298-306) and its
\* WebcamFeed mounts.
MountContainer ==
    /\ page = "unmounted"
    /\ Install(Commit([World EXCEPT !.page = "mounted",
                                   !.layout = "split",
                                   !.webcamError = FALSE,
                                   !.op = CapOp("mount", "none")]))

\* The window fires beforeunload: the listener of every mounted WebcamFeed
\* runs (WebcamFeed.tsx:120), and the page goes.
BeforeUnload ==
    /\ LET listeners == {f \in Feeds : feed[f].mounted}
           W == IF listeners # {} THEN cleanup(World) ELSE World
       IN  Install([W EXCEPT !.page = "unloaded", !.op = CapOp("beforeunload", "none")])

InitCapture ==
    /\ layout = "split"
    /\ page = "mounted"
    /\ isCameraEnabled = FALSE
    /\ webcamError = FALSE
    /\ globalStream = 0
    /\ streamInitPromise = 0
    /\ reqState = [r \in Requests |-> "unused"]
    /\ trackState = [r \in Requests |-> "none"]
    /\ feed = [f \in Feeds |->
                 IF f = "split"
                 THEN [NoFeed EXCEPT !.mounted = TRUE, !.isLoading = FALSE]
                 ELSE NoFeed]
    /\ outcomes = [r \in Requests |-> {}]
    /\ joined = [r \in Requests |-> {}]
    /\ capOp = CapOp("none", "none")

NextCapture ==
    \/ ToggleLayout
    \/ SetCameraEnabled
    \/ \E r \in Requests : SettleRequest(r, TRUE)
    \/ \E r \in Requests : SettleRequest(r, FALSE)
    \/ \E f \in Feeds : LoadedMetadata(f)
    \/ \E f \in Feeds : handleRetry(f)
    \/ UnmountContainer
    \/ MountContainer
    \/ BeforeUnload


(* ------------- capture: the WebcamFeed with a stream of its own --------- *)

\* The WebcamFeed of VideoContainer.tsx:655-747 before it is mounted, and
\* the browser before it has been asked for anything.
\*   isEnabled   the prop of the latest render
\*   stable      the parent passes onStreamReady and onError as functions
\*               that are the same on every render; where it leaves one
\*               out or writes it inline, every render has a new one
\*               (lines 657-658) and the effect's dependencies change (712)
\*   stream      the state of line 662 (0 is null); error: that of line 663
\*   srcObject   videoRef.current.srcObject
\*   closure     the stream the current effect and its cleanup closed over
\*   req, track  every getUserMedia promise and every stream's tracks
\*   alive       the variable mounted (line 666) of the effect that made
\*               the request
\*   sinceEnable the requests made since isEnabled last became true
NoInstance ==
    [mounted |-> FALSE, isEnabled |-> FALSE, stable |-> TRUE,
     stream |-> 0, error |-> FALSE, srcObject |-> 0, closure |-> 0,
     req |-> [r \in Acquisitions |-> "unused"],
     alive |-> [r \in Acquisitions |-> FALSE],
     track |-> [r \in Acquisitions |-> "none"],
     sinceEnable |-> 0, overflow |-> FALSE, op |-> "none"]

\* stream.getTracks().forEach((track) => track.stop()), for a stream or null.
stopTracks(S, s) ==
    IF s # 0 /\ S.track[s] = "live" THEN [S EXCEPT !.track[s] = "stopped"] ELSE S

\* The cleanup of the effect (VideoContainer.tsx:706-711).
wfCleanup(S) ==
    [stopTracks(S, S.closure) EXCEPT !.alive = [r \in Acquisitions |-> FALSE]]

\* The effect, up to its suspension (VideoContainer.tsx:665-684, 704).  The
\* re-render that setStream(null) causes runs the effect once more where
\* the callbacks are new, and that run finds stream null.
wfEffect(S) ==
    LET S1 == [S EXCEPT !.closure = S.stream]
        fresh == {r \in Acquisitions : S.req[r] = "unused"}
    IN  IF ~S.isEnabled
        THEN IF S.stream # 0
             THEN [stopTracks(S1, S.stream) EXCEPT
                      !.stream = 0, !.closure = IF S.stable THEN @ ELSE 0]
             ELSE S1
        ELSE IF fresh = {} THEN [S1 EXCEPT !.overflow = TRUE]
        ELSE LET r == Min(fresh) IN
             [S1 EXCEPT !.req[r] = "pending", !.alive[r] = TRUE,
                        !.sinceEnable = @ + 1]

\* The render that follows a change of the component's state: the
\* dependencies of the effect (VideoContainer.tsx:712) are the same, or the
\* callbacks are new and the effect runs again.
wfRerender(S) ==
    IF S.stable THEN S ELSE wfEffect(wfCleanup(S))

\* initializeWebcam after its await, for request r (VideoContainer.tsx:
\* 684-701).  While the error panel is shown there is no video element
\* (lines 716-727).
wfResumed(S, r, ok) ==
    LET S0 == [S EXCEPT !.req[r] = IF ok THEN "resolved" ELSE "rejected",
                        !.track[r] = IF ok THEN "live" ELSE "none"]
    IN  IF ~S.alive[r] THEN S0
        ELSE IF ok
        THEN wfRerender([S0 EXCEPT !.srcObject = IF S.error THEN 0 ELSE r,
                                   !.stream = r, !.error = FALSE])
        ELSE wfRerender([S0 EXCEPT !.error = TRUE, !.srcObject = 0])

InstallInstance(S, op) ==
    /\ ~S.overflow
    /\ wf' = [S EXCEPT !.op = op]
    /\ UNCHANGED notInstance

\* A parent mounts the WebcamFeed.
WFMount(enabled, stable) ==
    /\ ~wf.mounted
    /\ InstallInstance(wfEffect([wf EXCEPT !.mounted = TRUE, !.isEnabled = enabled,
                                           !.stable = stable, !.stream = 0,
                                           !.error = FALSE, !.srcObject = 0,
                                           !.closure = 0, !.sinceEnable = 0]),
                       "mount")

\* The parent changes isEnabled: the cleanup of the effect, then the effect.
WFSetEnabled ==
    /\ wf.mounted
    /\ InstallInstance(wfEffect(wfCleanup([wf EXCEPT !.isEnabled = ~@,
                                                    !.sinceEnable = IF wf.isEnabled
                                                                    THEN @ ELSE 0])),
                       IF wf.isEnabled THEN "disable" ELSE "enable")

\* The browser settles getUserMedia request r.
WFSettle(r, ok) ==
    /\ wf.req[r] = "pending"
    /\ InstallInstance(wfResumed(wf, r, ok), IF ok THEN "resolved" ELSE "rejected")

\* The parent unmounts the WebcamFeed.
WFUnmount ==
    /\ wf.mounted
    /\ InstallInstance([wfCleanup(wf) EXCEPT !.mounted = FALSE, !.stream = 0,
                                             !.error = FALSE, !.srcObject = 0,
                                             !.closure = 0],
                       "unmount")

InitInstance == wf = NoInstance

NextInstance ==
    \/ \E enabled, stable \in BOOLEAN : WFMount(enabled, stable)
    \/ WFSetEnabled
    \/ \E r \in Acquisitions : WFSettle(r, TRUE)
    \/ \E r \in Acquisitions : WFSettle(r, FALSE)
    \/ WFUnmount

(* ------------------------ overlay: PoseDetection ------------------------ *)

\* A detectPose closure: one run of the loop effect that got past its guard
\* (PoseDetection.tsx:37-72).
\*   pc     "awaiting": estimatePoses is outstanding (line 50);
\*          "scheduled": a requestAnimationFrame callback is pending (line 63)
\*   inst   the instance whose detectorRef and canvas it closes over
\*   torn   the cleanup of its effect has run (line 70)
\*   failed its last estimatePoses call threw; healed: a cycle has drawn
\*          after one that threw
NoLoop == [pc |-> "unused", inst |-> 0, torn |-> FALSE, failed |-> FALSE,
           healed |-> FALSE]

NoAct == [kind |-> "none", loop |-> 0]

ActiveLoops(L) == {l \in Loops : L[l].pc # "unused"}

\* The cleanup of the loop effect (PoseDetection.tsx:69-71):
\* cancelAnimationFrame cancels a pending callback; while estimatePoses is
\* outstanding animationFrame is undefined or names a callback that has
\* already run, and nothing is cancelled.
loopCleanup(L, l) ==
    IF l = 0 THEN L
    ELSE IF L[l].pc = "scheduled" THEN [L EXCEPT ![l] = NoLoop]
    ELSE IF L[l].pc = "awaiting" THEN [L EXCEPT ![l].torn = TRUE]
    ELSE L

\* Whether the loop effect gets past its guard (PoseDetection.tsx:38, 47);
\* the canvas is rendered whenever the component is, and its 2d context
\* exists.
loopGuard(v, ref) == v # 0 /\ ref

\* Mutant of detectPoseCaught: the catch block returns, no frame requested.
detectPoseCaught_Halts(L, l) ==
    [L EXCEPT ![l] = NoLoop]

\* detectPose after estimatePoses threw (PoseDetection.tsx:59-63).
detectPoseCaught(L, l) ==
    [L EXCEPT ![l].pc = "scheduled", ![l].failed = TRUE]

\* detectPose after estimatePoses returned (PoseDetection.tsx:50-58, 63).
detectPoseDrawn(L, l) ==
    [L EXCEPT ![l].pc = "scheduled", ![l].failed = FALSE,
              ![l].healed = @ \/ L[l].failed]

\* The size of a canvas element that has not been given one.
NewCanvas == 0 - 1

\* updateCanvasSize for the video element v (PoseDetection.tsx:78-82); the
\* effect returns before it when there is no element (line 76).
updateCanvasSize(v, canvas) ==
    IF v = 0 THEN canvas ELSE videoSize[v]

\* Mount: a new instance; both effects run, initializeDetector is suspended
\* at its first await, so the loop effect finds detectorRef.current null
\* (PoseDetection.tsx:18-38).
PDMount(v) ==
    /\ ~pdMounted
    /\ inst < MaxMounts
    /\ pdMounted' = TRUE
    /\ inst' = inst + 1
    /\ videoElement' = v
    /\ detector' = [detector EXCEPT ![inst + 1] = "loading"]
    /\ LET start == loopGuard(v, detectorRef[inst + 1])
           free == Loops \ ActiveLoops(loops)
       IN  /\ start => free # {}
           /\ loops' = IF start
                       THEN [loops EXCEPT ![Min(free)] = [NoLoop EXCEPT !.pc = "awaiting",
                                                                      !.inst = inst + 1]]
                       ELSE loops
           /\ effectLoop' = IF start THEN Min(free) ELSE 0
           /\ poseAct' = IF start THEN [kind |-> "issue", loop |-> Min(free)] ELSE NoAct
    /\ UNCHANGED <<detectorRef, overlay>>
    /\ canvasSize' = updateCanvasSize(v, NewCanvas)
    /\ UNCHANGED videoSize
    /\ UNCHANGED notOverlay

\* The parent passes another videoElement: the loop effect is cleaned up and
\* run again (PoseDetection.tsx:37-72).
PDSetVideo(v) ==
    /\ pdMounted
    /\ v # videoElement
    /\ videoElement' = v
    /\ LET L1 == loopCleanup(loops, effectLoop)
           start == loopGuard(v, detectorRef[inst])
           free == Loops \ ActiveLoops(L1)
       IN  /\ start => free # {}
           /\ loops' = IF start
                       THEN [L1 EXCEPT ![Min(free)] = [NoLoop EXCEPT !.pc = "awaiting",
                                                                   !.inst = inst]]
                       ELSE L1
           /\ effectLoop' = IF start THEN Min(free) ELSE 0
           /\ poseAct' = IF start THEN [kind |-> "issue", loop |-> Min(free)] ELSE NoAct
    /\ UNCHANGED <<pdMounted, inst, detector, detectorRef, overlay>>
    /\ canvasSize' = updateCanvasSize(v, canvasSize)
    /\ UNCHANGED videoSize
    /\ UNCHANGED notOverlay

\* Unmount: the cleanups of both effects (PoseDetection.tsx:30-34, 69-71).
PDUnmount ==
    /\ pdMounted
    /\ pdMounted' = FALSE
    /\ detectorRef' = [detectorRef EXCEPT ![inst] = FALSE]
    /\ loops' = loopCleanup(loops, effectLoop)
    /\ effectLoop' = 0
    /\ poseAct' = NoAct
    /\ UNCHANGED <<videoElement, inst, detector, overlay>>
    /\ UNCHANGED canvasVars
    /\ UNCHANGED notOverlay

\* createDetector resolves; initializeDetector stores the detector, whether
\* or not the instance is still mounted (PoseDetection.tsx:19-26).
DetectorReady(i) ==
    /\ detector[i] = "loading"
    /\ detector' = [detector EXCEPT ![i] = "ready"]
    /\ detectorRef' = [detectorRef EXCEPT ![i] = TRUE]
    /\ poseAct' = NoAct
    /\ UNCHANGED <<pdMounted, videoElement, inst, overlay, loops, effectLoop>>
    /\ UNCHANGED canvasVars
    /\ UNCHANGED notOverlay

\* Mutant of DetectorFails: the failure is reported to the container as a
\* camera error.
DetectorFails_ReportsCameraError(i) ==
    /\ detector[i] = "loading"
    /\ detector' = [detector EXCEPT ![i] = "failed"]
    /\ poseAct' = NoAct
    /\ webcamError' = TRUE
    /\ UNCHANGED <<pdMounted, videoElement, inst, detectorRef, overlay, loops, effectLoop>>
    /\ UNCHANGED <<layout, isCameraEnabled, globalStream, streamInitPromise, page,
                   reqState, trackState, feed, outcomes, joined, capOp>>
    /\ UNCHANGED <<playbackVars, viewVars, drawVars, canvasVars, instanceVars>>

\* tf.ready or createDetector rejects: initializeDetector's promise rejects
\* and nobody handles it (PoseDetection.tsx:19-28).
DetectorFails(i) ==
    /\ detector[i] = "loading"
    /\ detector' = [detector EXCEPT ![i] = "failed"]
    /\ poseAct' = NoAct
    /\ UNCHANGED <<pdMounted, videoElement, inst, detectorRef, overlay, loops, effectLoop>>
    /\ UNCHANGED canvasVars
    /\ UNCHANGED notOverlay

\* estimatePoses of closure l returns n poses: the canvas is cleared, the
\* poses are drawn, the next frame is requested (PoseDetection.tsx:50-63).
EstimateResolves(l, n) ==
    /\ loops[l].pc = "awaiting"
    /\ loops' = detectPoseDrawn(loops, l)
    /\ overlay' = [overlay EXCEPT ![loops[l].inst] = n]
    /\ poseAct' = [kind |-> "draw", loop |-> l]
    /\ UNCHANGED <<pdMounted, videoElement, inst, detector, detectorRef, effectLoop>>
    /\ UNCHANGED canvasVars
    /\ UNCHANGED notOverlay

\* estimatePoses of closure l throws: the error is logged and the next frame
\* is requested (PoseDetection.tsx:59-63).
EstimateRejects(l) ==
    /\ loops[l].pc = "awaiting"
    /\ loops' = detectPoseCaught(loops, l)
    /\ poseAct' = [kind |-> "caught", loop |-> l]
    /\ UNCHANGED <<pdMounted, videoElement, inst, detector, detectorRef, overlay,
                   effectLoop>>
    /\ UNCHANGED canvasVars
    /\ UNCHANGED notOverlay

\* The frame callback of closure l runs detectPose (PoseDetection.tsx:46-50).
AnimationFrame(l) ==
    /\ loops[l].pc = "scheduled"
    /\ IF detectorRef[loops[l].inst]
       THEN /\ loops' = [loops EXCEPT ![l].pc = "awaiting"]
            /\ poseAct' = [kind |-> "issue", loop |-> l]
            /\ UNCHANGED effectLoop
       ELSE /\ loops' = [loops EXCEPT ![l] = NoLoop]
            /\ poseAct' = [kind |-> "return", loop |-> l]
            /\ effectLoop' = IF effectLoop = l THEN 0 ELSE effectLoop
    /\ UNCHANGED <<pdMounted, videoElement, inst, detector, detectorRef, overlay>>
    /\ UNCHANGED canvasVars
    /\ UNCHANGED notOverlay

\* The video element v has its metadata: it knows its resolution and fires
\* loadedmetadata, whose listener is updateCanvasSize while a PoseDetection
\* is mounted over v (PoseDetection.tsx:84-89).
VideoMetadata(v, size) ==
    /\ v # 0
    /\ videoSize' = [videoSize EXCEPT ![v] = size]
    /\ canvasSize' = IF pdMounted /\ videoElement = v
                     THEN updateCanvasSize(v, canvasSize)'
                     ELSE canvasSize
    /\ UNCHANGED overlayVars
    /\ UNCHANGED notOverlay

\* The resolution of the stream v plays changes: the element fires resize,
\* which has no listener.
VideoResize(v, size) ==
    /\ v # 0
    /\ videoSize[v] # 0
    /\ size # videoSize[v]
    /\ videoSize' = [videoSize EXCEPT ![v] = size]
    /\ UNCHANGED canvasSize
    /\ UNCHANGED overlayVars
    /\ UNCHANGED notOverlay

InitCanvas ==
    /\ videoSize = [v \in Videos |-> 0]
    /\ canvasSize = NewCanvas

NextCanvas ==
    \/ \E v \in Videos : PDMount(v)
    \/ \E v \in Videos : PDSetVideo(v)
    \/ PDUnmount
    \/ \E v \in Videos : \E size \in Resolutions : VideoMetadata(v, size)
    \/ \E v \in Videos : \E size \in Resolutions : VideoResize(v, size)

InitOverlay ==
    /\ pdMounted = FALSE
    /\ videoElement = 0
    /\ inst = 0
    /\ detector = [i \in Instances |-> "none"]
    /\ detectorRef = [i \in Instances |-> FALSE]
    /\ overlay = [i \in Instances |-> 0]
    /\ loops = [l \in Loops |-> NoLoop]
    /\ effectLoop = 0
    /\ poseAct = NoAct

LoopStep ==
    \/ \E l \in Loops : \E n \in 0..1 : EstimateResolves(l, n)
    \/ \E l \in Loops : EstimateRejects(l)
    \/ \E l \in Loops : AnimationFrame(l)

NextOverlay ==
    \/ \E v \in Videos : PDMount(v)
    \/ \E v \in Videos : PDSetVideo(v)
    \/ PDUnmount
    \/ \E i \in Instances : DetectorReady(i)
    \/ \E i \in Instances : DetectorFails(i)
    \/ LoopStep



(* ------------------------ playback: VideoContainer ---------------------- *)

Clamp(t, lo, hi) == IF t < lo THEN lo ELSE IF t > hi THEN hi ELSE t

\* The media element (native) or the embedded player (YouTube).
\*   status      "none", "loading", "metadata", "loaded", "error"
\*   time        its playback position; paused: not playing
\*   playPending a promise returned by play() is unsettled (native)
\*   aborted     such a promise was rejected by pause() or load() and its
\*               catch handler is still to run (native): "no", or the
\*               handler that called pause() or load()
\*   seekPending a seekTo the player in its iframe has not applied yet
\*               (YouTube; -1: none)
\*   events      notifications queued for the container: "ended",
\*               "playing", "paused"
NoMedia == [status |-> "none", time |-> 0, paused |-> TRUE, playPending |-> FALSE,
            aborted |-> "no", seekPending |-> -1, events |-> <<>>]

\* The state the playback handlers of one task read (their closures) and
\* write.
Player ==
    [isPlaying |-> isPlaying, currentTime |-> currentTime, duration |-> duration,
     videoError |-> videoError, isEnded |-> isEnded, isVideoLoading |-> isVideoLoading,
     youtubeVideoId |-> youtubeVideoId, playerRef |-> playerRef, m |-> media,
     \* videoRef.current: InstructorVideo is a function component that takes
     \* no ref (WebcamFeed.tsx:204-208), so under it the ref stays null
     videoRef |-> backend = "native",
     iv |-> iv]

InstallPlayerState(P, op) ==
    /\ Len(P.m.events) <= MaxEvents
    /\ isPlaying' = P.isPlaying
    /\ currentTime' = P.currentTime
    /\ duration' = P.duration
    /\ videoError' = P.videoError
    /\ isEnded' = P.isEnded
    /\ isVideoLoading' = P.isVideoLoading
    /\ youtubeVideoId' = P.youtubeVideoId
    /\ playerRef' = P.playerRef
    /\ media' = P.m
    /\ iv' = P.iv
    /\ lastOp' = op
    /\ UNCHANGED backend

InstallPlayer(P, op) == InstallPlayerState(P, op) /\ UNCHANGED notPlayback

Op(name, arg) == [op |-> name, arg |-> arg, wasPlaying |-> isPlaying]

\* HTMLMediaElement: pause() rejects a pending play() promise, play() on an
\* element at its end starts over, a currentTime assignment is clamped to
\* the seekable range and takes effect at once, and reaching the end queues
\* an ended event.
elPause(P, by) ==
    [P EXCEPT !.m.paused = TRUE, !.m.playPending = FALSE,
              !.m.aborted = IF P.m.playPending /\ @ = "no" THEN by ELSE @]

elPlay(P) ==
    [P EXCEPT !.m.paused = FALSE, !.m.playPending = TRUE,
              !.m.time = IF @ = MediaDuration THEN 0 ELSE @]

elSeek(P, t) ==
    LET to == Clamp(t, 0, MediaDuration) IN
    [P EXCEPT !.m.time = to,
              !.m.events = IF to = MediaDuration /\ P.m.time # MediaDuration
                              /\ P.m.status = "loaded"
                           THEN Append(@, "ended") ELSE @]

\* The YouTube iframe player: commands are posted to the iframe and answered
\* by state-change notifications; seekTo is applied by the player later,
\* getCurrentTime returns the position the player last reported.
ytPause(P) ==
    IF P.m.status = "loaded"
    THEN [P EXCEPT !.m.paused = TRUE, !.m.events = Append(@, "paused")]
    ELSE P

ytPlay(P) ==
    IF P.m.status = "loaded"
    THEN [P EXCEPT !.m.paused = FALSE, !.m.events = Append(@, "playing"),
                   !.m.time = IF @ = MediaDuration THEN 0 ELSE @]
    ELSE P

ytSeek(P, t) == [P EXCEPT !.m.seekPending = Clamp(t, 0, MediaDuration)]

\* handleReset, native (VideoContainer.tsx:354-362).
handleReset(P) ==
    IF P.videoRef /\ ~P.videoError
    THEN LET P1 == elPause(elSeek(P, 0), "reset") IN
         [P1 EXCEPT !.currentTime = 0, !.isPlaying = FALSE, !.isEnded = FALSE]
    ELSE P

\* handlePlayPause, native (VideoContainer.tsx:337-352).
handlePlayPause(P) ==
    IF P.videoRef /\ ~P.videoError /\ ~P.isVideoLoading
    THEN IF P.isPlaying
         THEN [elPause(P, "playPause") EXCEPT !.isPlaying = FALSE]
         ELSE LET P1 == IF P.isEnded THEN handleReset(P) ELSE P IN
              [elPlay(P1) EXCEPT !.isPlaying = TRUE]
    ELSE P

\* handleSeek, native (VideoContainer.tsx:364-376).
handleSeek(P, newTime) ==
    IF P.videoRef /\ ~P.videoError
    THEN LET P1 == elSeek(P, newTime) IN
         [P1 EXCEPT !.currentTime = newTime,
                    !.isEnded = IF newTime < P.duration THEN FALSE ELSE @]
    ELSE P

\* handleSeekRelative (VideoContainer.tsx:378-386).
handleSeekRelative(P, seconds) ==
    IF P.videoRef /\ ~P.videoError
    THEN handleSeek(P, Clamp(P.currentTime + seconds, 0, P.duration))
    ELSE P

\* handlePlayPause, YouTube (VideoContainer.tsx:36-45).
ytHandlePlayPause(P) ==
    IF P.youtubeVideoId /\ P.playerRef
    THEN [(IF P.isPlaying THEN ytPause(P) ELSE ytPlay(P)) EXCEPT !.isPlaying = ~P.isPlaying]
    ELSE P

\* handleReset, YouTube (VideoContainer.tsx:47-55).
ytHandleReset(P) ==
    IF P.youtubeVideoId /\ P.playerRef
    THEN [ytPause(ytSeek(P, 0)) EXCEPT !.currentTime = 0, !.isPlaying = FALSE,
                                        !.isEnded = FALSE]
    ELSE P

\* handleSeek, YouTube (VideoContainer.tsx:57-66).
ytHandleSeek(P, newTime) ==
    IF P.youtubeVideoId /\ P.playerRef
    THEN [ytSeek(P, newTime) EXCEPT !.currentTime = newTime,
                                    !.isEnded = IF newTime < P.duration THEN FALSE ELSE @]
    ELSE P

\* Whether the handler of a seek acts on its argument.
SeekActs ==
    IF backend = "youtube" THEN youtubeVideoId /\ playerRef
    ELSE backend = "native" /\ ~videoError

(* --------------------------- playback: actions -------------------------- *)

\* The controls are bound to the handlers; VideoControls ignores the pointer
\* while the video loads, the keys of the native container do not
\* (VideoContainer.tsx:248-266, 449-506, 618-635).
ControlsUsable ==
    IF backend = "youtube" THEN youtubeVideoId /\ ~isVideoLoading ELSE TRUE

PlayPause ==
    /\ ControlsUsable
    /\ seekTick' = -1
    /\ InstallPlayer(IF backend = "youtube" THEN ytHandlePlayPause(Player)
                     ELSE handlePlayPause(Player), Op("playPause", 0))

Reset ==
    /\ ControlsUsable
    /\ seekTick' = -1
    /\ InstallPlayer(IF backend = "youtube" THEN ytHandleReset(Player)
                     ELSE handleReset(Player), Op("reset", 0))

Seek(t) ==
    /\ ControlsUsable
    /\ seekTick' = IF SeekActs THEN Clamp(t, 0, MediaDuration) ELSE seekTick
    /\ InstallPlayer(IF backend = "youtube" THEN ytHandleSeek(Player, t)
                     ELSE handleSeek(Player, t), Op("seek", t))

\* The arrow keys (VideoContainer.tsx:460-467).
SeekRelative(delta) ==
    /\ backend # "youtube"
    /\ seekTick' = IF SeekActs
                   THEN Clamp(Clamp(currentTime + delta, 0, duration), 0, MediaDuration)
                   ELSE seekTick
    /\ InstallPlayer(handleSeekRelative(Player, delta), Op("seekRelative", delta))

\* The video element learns the duration and reports it; handleDurationChange
\* (VideoContainer.tsx:392-394).
DurationChange ==
    /\ backend = "native"
    /\ media.status = "loading"
    /\ seekTick' = seekTick
    /\ InstallPlayer([Player EXCEPT !.duration = MediaDuration, !.m.status = "metadata"],
                     Op("durationChange", MediaDuration))

\* loadeddata; handleVideoLoaded (VideoContainer.tsx:416-418).
VideoLoaded ==
    /\ backend = "native"
    /\ media.status = "metadata"
    /\ seekTick' = seekTick
    /\ InstallPlayer([Player EXCEPT !.isVideoLoading = FALSE, !.m.status = "loaded"],
                     Op("loaded", 0))

\* The element reports an error; handleVideoError (VideoContainer.tsx:396-401).
\* A play() promise still pending is rejected with it.
VideoError ==
    /\ backend = "native"
    /\ media.status \in {"loading", "metadata", "loaded"}
    /\ seekTick' = -1
    /\ InstallPlayer([Player EXCEPT !.videoError = TRUE, !.isPlaying = FALSE,
                                    !.isEnded = FALSE, !.isVideoLoading = FALSE,
                                    !.m.status = "error", !.m.paused = TRUE,
                                    !.m.playPending = FALSE, !.m.events = <<>>],
                     Op("error", 0))

\* handleRetryVideo, bound to the button of the error panel
\* (VideoContainer.tsx:408-414, 535-555); load() resets the element.
RetryVideo ==
    /\ backend = "native"
    /\ videoError
    /\ seekTick' = -1
    /\ InstallPlayer([elPause(Player, "retry") EXCEPT
                                   !.videoError = FALSE, !.isVideoLoading = TRUE,
                                   !.m.status = "loading", !.m.time = 0,
                                   !.m.events = <<>>],
                     Op("retry", 0))

\* The promise of play() settles: playback starts, or the browser refuses
\* and the catch handler runs (VideoContainer.tsx:345-348).
PlaySettles(ok) ==
    /\ backend = "native"
    /\ media.playPending
    /\ seekTick' = seekTick
    /\ InstallPlayer(IF ok THEN [Player EXCEPT !.m.playPending = FALSE]
                     ELSE [Player EXCEPT !.m.playPending = FALSE, !.m.paused = TRUE,
                                         !.videoError = TRUE, !.isPlaying = FALSE],
                     Op(IF ok THEN "playStarted" ELSE "playRejected", 0))

\* A play() promise that pause() or load() rejected reaches its catch
\* handler (VideoContainer.tsx:345-348) in a task of its own.
PlayAborted ==
    /\ backend = "native"
    /\ media.aborted # "no"
    /\ seekTick' = seekTick
    /\ InstallPlayer([Player EXCEPT !.videoError = TRUE, !.isPlaying = FALSE,
                                    !.m.aborted = "no"],
                     Op("playAborted", 0))

\* The media clock moves while the medium plays.
ClockTick ==
    /\ media.status = "loaded"
    /\ ~media.paused /\ ~media.playPending
    /\ media.time < MediaDuration
    /\ seekTick' = -1
    /\ LET to == Clamp(media.time + ClockStep, 0, MediaDuration) IN
       InstallPlayer([Player EXCEPT !.m.time = to,
                                    !.m.events = IF to = MediaDuration
                                                 THEN Append(@, "ended") ELSE @],
                     Op("clock", 0))

\* A time update of the media clock reaches the container: timeupdate, whose
\* handler passes the element's currentTime to handleTimeUpdate
\* (WebcamFeed.tsx:225-231, VideoContainer.tsx:388-390), or the interval
\* that runs handleYouTubePlaybackTime while isPlaying
\* (VideoContainer.tsx:97-101, 128-137).
TimeUpdate ==
    /\ IF backend = "youtube" THEN isPlaying /\ playerRef ELSE media.status = "loaded"
    /\ seekTick' = seekTick
    /\ InstallPlayer([Player EXCEPT !.currentTime = media.time,
                                    !.iv.currentTime = IF backend = "instructor"
                                                       THEN media.time ELSE @],
                     Op("timeUpdate", media.time))

\* The next queued notification is delivered: the ended event and
\* handleVideoEnded (VideoContainer.tsx:403-406), or onStateChange and
\* handleYouTubeStateChange (VideoContainer.tsx:74-89).
MediaEvent ==
    /\ media.events # <<>>
    /\ seekTick' = seekTick
    /\ LET e == Head(media.events)
           P == [Player EXCEPT !.m.events = Tail(@)]
       IN  InstallPlayer(
             IF e = "ended"
             THEN [P EXCEPT !.isPlaying = FALSE, !.isEnded = TRUE, !.m.paused = TRUE,
                            !.iv.isPlaying = FALSE]
             ELSE IF e = "playing" THEN [P EXCEPT !.isPlaying = TRUE]
             ELSE [P EXCEPT !.isPlaying = FALSE],
             Op(e, 0))

\* YouTubeInput submits a video id (VideoContainer.tsx:149); the YouTube
\* element mounts and its player loads.
SubmitVideoId ==
    /\ backend = "youtube"
    /\ ~youtubeVideoId
    /\ seekTick' = seekTick
    /\ InstallPlayer([Player EXCEPT !.youtubeVideoId = TRUE, !.m.status = "loading"],
                     Op("submit", 0))

\* handleYouTubeReady (VideoContainer.tsx:68-72).
YouTubeReady ==
    /\ backend = "youtube"
    /\ media.status = "loading"
    /\ seekTick' = seekTick
    /\ InstallPlayer([Player EXCEPT !.playerRef = TRUE, !.duration = MediaDuration,
                                    !.isVideoLoading = FALSE, !.m.status = "loaded"],
                     Op("ready", 0))

\* handleYouTubeError (VideoContainer.tsx:91-95).
YouTubeError ==
    /\ backend = "youtube"
    /\ media.status \in {"loading", "loaded"}
    /\ seekTick' = -1
    /\ InstallPlayer([Player EXCEPT !.videoError = TRUE, !.isVideoLoading = FALSE,
                                    !.m.status = "error", !.m.paused = TRUE],
                     Op("error", 0))

\* The player in the iframe applies a seekTo.
PlayerSeeks ==
    /\ backend = "youtube"
    /\ media.seekPending # -1
    /\ seekTick' = seekTick
    /\ LET to == media.seekPending IN
       InstallPlayer([Player EXCEPT !.m.time = to, !.m.seekPending = -1,
                                    !.m.paused = IF to = MediaDuration THEN TRUE ELSE @,
                                    !.m.events = IF to = MediaDuration /\ media.time # to
                                                 THEN Append(@, "ended") ELSE @],
                     Op("seeked", to))

(* ----------------- playback: InstructorVideo of WebcamFeed.tsx ---------- *)

\* InstructorVideo binds three events of its video element
\* (WebcamFeed.tsx:258-269): timeupdate and ended, which TimeUpdate and
\* MediaEvent model, and loadedmetadata.  Of the props the container passes
\* (VideoContainer.tsx:525-533) it takes videoUrl, onTimeUpdate and onEnded
\* (WebcamFeed.tsx:198-208).  Its own controls lie under the loading panel
\* of the container and are reached with the keyboard.

\* loadedmetadata; handleLoadedMetadata (WebcamFeed.tsx:233-237).
IVLoadedMetadata ==
    /\ backend = "instructor"
    /\ media.status = "loading"
    /\ seekTick' = seekTick
    /\ InstallPlayer([Player EXCEPT !.iv.duration = MediaDuration, !.m.status = "metadata"],
                     Op("ivLoadedMetadata", 0))

\* The element has loaded its first frame and can play: loadeddata, which
\* has no handler.
IVLoadedData ==
    /\ backend = "instructor"
    /\ media.status = "metadata"
    /\ seekTick' = seekTick
    /\ InstallPlayer([Player EXCEPT !.m.status = "loaded"], Op("ivLoadedData", 0))

\* handlePlayPause of InstructorVideo (WebcamFeed.tsx:214-223).
IVPlayPause ==
    /\ backend = "instructor"
    /\ seekTick' = -1
    /\ InstallPlayer(
         IF iv.isPlaying
         THEN [Player EXCEPT !.m.paused = TRUE, !.m.playPending = FALSE,
                             !.iv.isPlaying = FALSE]
         ELSE [elPlay(Player) EXCEPT !.iv.isPlaying = TRUE],
         Op("ivPlayPause", 0))

\* handleSeek of InstructorVideo, with a value of its slider
\* (WebcamFeed.tsx:239-244, 275-282).
IVSeek(t) ==
    /\ backend = "instructor"
    /\ 0 <= t
    /\ t <= (IF iv.duration = 0 THEN SliderDefaultMax ELSE iv.duration)
    /\ seekTick' = Clamp(t, 0, MediaDuration)
    /\ InstallPlayer([elSeek(Player, t) EXCEPT !.iv.currentTime = t], Op("ivSeek", t))

\* handleReset of InstructorVideo (WebcamFeed.tsx:246-253).
IVReset ==
    /\ backend = "instructor"
    /\ seekTick' = -1
    /\ InstallPlayer([elSeek(Player, 0) EXCEPT !.m.paused = TRUE, !.m.playPending = FALSE,
                                               !.iv.currentTime = 0,
                                               !.iv.isPlaying = FALSE],
                     Op("ivReset", 0))

\* The promise of InstructorVideo's play() settles (WebcamFeed.tsx:219);
\* nothing handles a rejection.
IVPlaySettles(ok) ==
    /\ backend = "instructor"
    /\ media.playPending
    /\ media.status = "loaded" \/ ~ok
    /\ seekTick' = seekTick
    /\ InstallPlayer(IF ok THEN [Player EXCEPT !.m.playPending = FALSE]
                     ELSE [Player EXCEPT !.m.playPending = FALSE, !.m.paused = TRUE],
                     Op(IF ok THEN "playStarted" ELSE "playRejected", 0))

\* The element of InstructorVideo loads.
IVLoads == IVLoadedMetadata \/ IVLoadedData

NextInstructor ==
    \/ IVLoads
    \/ IVPlayPause
    \/ \E t \in SeekTargets : IVSeek(t)
    \/ IVReset
    \/ IVPlaySettles(TRUE)
    \/ IVPlaySettles(FALSE)
    \/ ClockTick
    \/ TimeUpdate
    \/ MediaEvent
    \/ PlayPause
    \/ Reset
    \/ \E t \in SeekTargets : Seek(t)
    \/ \E delta \in {0 - SeekStep, SeekStep} : SeekRelative(delta)

InitPlayback ==
    /\ isPlaying = FALSE
    /\ currentTime = 0
    /\ duration = 0
    /\ videoError = FALSE
    /\ isEnded = FALSE
    /\ isVideoLoading = TRUE
    /\ youtubeVideoId = FALSE
    /\ playerRef = FALSE
    /\ media = IF backend = "youtube" THEN NoMedia ELSE [NoMedia EXCEPT !.status = "loading"]
    /\ iv = [isPlaying |-> FALSE, currentTime |-> 0, duration |-> 0]
    /\ lastOp = [op |-> "none", arg |-> 0, wasPlaying |-> FALSE]
    /\ seekTick = -1

NextPlayback ==
    \/ PlayPause
    \/ Reset
    \/ \E t \in SeekTargets : Seek(t)
    \/ \E delta \in {0 - SeekStep, SeekStep} : SeekRelative(delta)
    \/ DurationChange
    \/ VideoLoaded
    \/ VideoError
    \/ RetryVideo
    \/ PlaySettles(TRUE)
    \/ PlaySettles(FALSE)
    \/ PlayAborted
    \/ ClockTick
    \/ TimeUpdate
    \/ MediaEvent
    \/ SubmitVideoId
    \/ YouTubeReady
    \/ YouTubeError
    \/ PlayerSeeks

(* ------------------------ fullscreen: VideoContainer -------------------- *)

\* The browser, after the Fullscreen standard: requestFullscreen and
\* exitFullscreen return a promise and do their work later; the step that
\* changes document.fullscreenElement queues a fullscreenchange event and
\* resolves the promise, whose continuation runs before any other task; the
\* event is delivered in a later task.

\* Mutant of handleFullscreenChange: the listener keeps the state it has.
handleFullscreenChange_KeepsState(element, current) == current

\* handleFullscreenChange (VideoContainer.tsx:117-119, 439-441).
handleFullscreenChange(element, current) == element

\* toggleFullscreen after its await, the promise resolved: the YouTube
\* container does nothing more (VideoContainer.tsx:105-109), the other sets
\* isFullscreen (VideoContainer.tsx:425-431).
toggleFullscreenResumed(kind, current) ==
    IF backend = "youtube" THEN current ELSE kind = "request"

FsOp(name, cause) == [op |-> name, cause |-> cause]

\* toggleFullscreen up to its await (VideoContainer.tsx:103-109, 421-430):
\* the F key or the button of the controls.
ToggleFullscreen ==
    /\ page = "mounted"
    /\ Len(fsPending) < MaxToggles
    /\ fsPending' = Append(fsPending, IF fsElement THEN "exit" ELSE "request")
    /\ fsOp' = FsOp("toggle", fsOp.cause)
    /\ UNCHANGED <<isFullscreen, fsElement, fsEvents, showGrid, keyOp>>
    /\ UNCHANGED notView

\* The browser settles the oldest pending promise.  Resolved, the document
\* is in the state asked for, with an event queued if that is a change;
\* rejected, the catch of toggleFullscreen logs (VideoContainer.tsx:110-112,
\* 432-434).
FullscreenSettles(ok) ==
    /\ fsPending # <<>>
    /\ LET kind == Head(fsPending)
           target == (kind = "request")
           changes == ok /\ fsElement # target
       IN  /\ changes => fsEvents < MaxChanges
           /\ fsPending' = Tail(fsPending)
           /\ fsElement' = IF ok THEN target ELSE fsElement
           /\ fsEvents' = IF changes THEN fsEvents + 1 ELSE fsEvents
           /\ isFullscreen' = IF ok THEN toggleFullscreenResumed(kind, isFullscreen)
                                    ELSE isFullscreen
           /\ fsOp' = FsOp(IF ok THEN "resolved" ELSE "rejected",
                           IF changes THEN "toggle" ELSE fsOp.cause)
    /\ UNCHANGED <<showGrid, keyOp>>
    /\ UNCHANGED notView

\* The user leaves fullscreen with Escape.
EscapeKey ==
    /\ fsElement
    /\ fsEvents < MaxChanges
    /\ fsElement' = FALSE
    /\ fsEvents' = fsEvents + 1
    /\ fsOp' = FsOp("escape", "escape")
    /\ UNCHANGED <<isFullscreen, fsPending, showGrid, keyOp>>
    /\ UNCHANGED notView

\* A fullscreenchange event reaches the listener of the container
\* (VideoContainer.tsx:116-125, 438-447).
FullscreenChange ==
    /\ page = "mounted"
    /\ fsEvents > 0
    /\ fsEvents' = fsEvents - 1
    /\ isFullscreen' = handleFullscreenChange(fsElement, isFullscreen)
    /\ fsOp' = FsOp("change", fsOp.cause)
    /\ UNCHANGED <<fsElement, fsPending, showGrid, keyOp>>
    /\ UNCHANGED notView

InitView ==
    /\ isFullscreen = FALSE
    /\ fsElement = FALSE
    /\ fsPending = <<>>
    /\ fsEvents = 0
    /\ fsOp = FsOp("none", "none")
    /\ showGrid = FALSE
    /\ keyOp = [code |-> "none", focus |-> FALSE, n |-> 0]

\* The browser settles a fullscreen promise.
FullscreenSettled == FullscreenSettles(TRUE) \/ FullscreenSettles(FALSE)

NextView ==
    \/ ToggleFullscreen
    \/ FullscreenSettled
    \/ EscapeKey
    \/ FullscreenChange

(* ----------------------- overlay: drawSkeleton -------------------------- *)

\* The keypoints of MoveNet.
KeypointNames ==
    {"nose", "left_eye", "right_eye", "left_ear", "right_ear",
     "left_shoulder", "right_shoulder", "left_elbow", "right_elbow",
     "left_wrist", "right_wrist", "left_hip", "right_hip",
     "left_knee", "right_knee", "left_ankle", "right_ankle"}

\* connections (PoseDetection.tsx:106-123).
connections ==
    {<<"nose", "left_eye">>, <<"nose", "right_eye">>,
     <<"left_eye", "left_ear">>, <<"right_eye", "right_ear">>,
     <<"left_shoulder", "right_shoulder">>,
     <<"left_shoulder", "left_elbow">>, <<"right_shoulder", "right_elbow">>,
     <<"left_elbow", "left_wrist">>, <<"right_elbow", "right_wrist">>,
     <<"left_shoulder", "left_hip">>, <<"right_shoulder", "right_hip">>,
     <<"left_hip", "right_hip">>,
     <<"left_hip", "left_knee">>, <<"right_hip", "right_knee">>,
     <<"left_knee", "left_ankle">>, <<"right_knee", "right_ankle">>}

\* No keypoint, or no score.
NoScore == 0 - 1

\* The scores of the poses: none, zero, certain, and those about the
\* threshold.
Scores ==
    {NoScore, 0, 100} \cup (ScoreThreshold - ScoreSpread .. ScoreThreshold + ScoreSpread)

\* keypoint.score && keypoint.score > 0.3 (PoseDetection.tsx:127, 141-144):
\* undefined and 0 are falsy.
Passes(score) == score # NoScore /\ score # 0 /\ score > ScoreThreshold

\* Mutant of drawSkeleton: >= for >.
drawSkeleton_AtLeast(keypoints) ==
    [done |-> TRUE,
     points |-> {k \in KeypointNames : keypoints[k] >= ScoreThreshold},
     lines |-> {c \in connections : keypoints[c[1]] >= ScoreThreshold
                                    /\ keypoints[c[2]] >= ScoreThreshold}]

\* drawSkeleton (PoseDetection.tsx:101-154): the arcs and the strokes it
\* puts on the canvas.
drawSkeleton(keypoints) ==
    [done |-> TRUE,
     points |-> {k \in KeypointNames : Passes(keypoints[k])},
     lines |-> {c \in connections : Passes(keypoints[c[1]]) /\ Passes(keypoints[c[2]])}]

NothingDrawn == [done |-> FALSE, points |-> {}, lines |-> {}]

\* detectPose draws the pose it was given (PoseDetection.tsx:56-58).
DrawPose ==
    /\ ~drawn.done
    /\ drawn' = drawSkeleton(pose)
    /\ UNCHANGED pose
    /\ UNCHANGED notDraw

\* Elsewhere the pose is left out: no keypoint, nothing drawn.
InitDraw ==
    /\ pose = [k \in KeypointNames |-> NoScore]
    /\ drawn = NothingDrawn

\* A pose in which two keypoints have any score and the others share one.
InitPoses ==
    /\ \E a, b \in KeypointNames : \E sa, sb \in Scores : \E rest \in {NoScore, 100} :
          pose = [k \in KeypointNames |-> IF k = a THEN sa ELSE IF k = b THEN sb ELSE rest]
    /\ drawn = NothingDrawn

NextDraw == DrawPose

(* ------------------------- keyboard: VideoContainer --------------------- *)

\* The keys handleKeyDown knows, and one it does not.
KeyCodes == {"Space", "ArrowLeft", "ArrowRight", "Home", "End",
             "KeyR", "KeyG", "KeyL", "KeyF", "KeyX"}

\* A key that acts on the playback: the handler's result is installed.
KeyPlayback(P, op, tick) ==
    /\ seekTick' = tick
    /\ InstallPlayerState(P, op)
    /\ UNCHANGED <<captureVars, fullscreenVars, showGrid>>

\* Mutant of handleKeyDown: line 453 dropped, the keys act wherever the
\* focus is.
handleKeyDown_IgnoresFocus(code, focus) ==
    IF code = "KeyG"
    THEN showGrid' = ~showGrid /\ UNCHANGED <<captureVars, playbackVars, fullscreenVars>>
    ELSE UNCHANGED <<captureVars, playbackVars, fullscreenVars, showGrid>>

\* handleKeyDown (VideoContainer.tsx:451-493); focus is
\* containerRef.current.contains(document.activeElement).
handleKeyDown(code, focus) ==
    IF ~focus
    THEN UNCHANGED <<captureVars, playbackVars, fullscreenVars, showGrid>>
    ELSE CASE code = "Space" ->
                KeyPlayback(handlePlayPause(Player), Op("playPause", 0), -1)
           [] code = "ArrowLeft" ->
                KeyPlayback(handleSeekRelative(Player, 0 - SeekStep),
                            Op("seekRelative", 0 - SeekStep),
                            IF SeekActs
                            THEN Clamp(Clamp(currentTime - SeekStep, 0, duration), 0, MediaDuration)
                            ELSE seekTick)
           [] code = "ArrowRight" ->
                KeyPlayback(handleSeekRelative(Player, SeekStep), Op("seekRelative", SeekStep),
                            IF SeekActs
                            THEN Clamp(Clamp(currentTime + SeekStep, 0, duration), 0, MediaDuration)
                            ELSE seekTick)
           [] code = "Home" ->
                KeyPlayback(handleSeek(Player, 0), Op("seek", 0),
                            IF SeekActs THEN 0 ELSE seekTick)
           [] code = "End" ->
                KeyPlayback(handleSeek(Player, duration), Op("seek", duration),
                            IF SeekActs THEN Clamp(duration, 0, MediaDuration) ELSE seekTick)
           [] code = "KeyR" ->
                KeyPlayback(handleReset(Player), Op("reset", 0), -1)
           [] code = "KeyG" ->
                /\ showGrid' = ~showGrid
                /\ UNCHANGED <<captureVars, playbackVars, fullscreenVars>>
           [] code = "KeyL" ->
                /\ InstallWorld(Commit([World EXCEPT
                        !.layout = IF layout = "split" THEN "mini" ELSE "split",
                        !.op = CapOp("layout", "none")]))
                /\ UNCHANGED <<playbackVars, fullscreenVars, showGrid>>
           [] code = "KeyF" ->
                /\ Len(fsPending) < MaxToggles
                /\ fsPending' = Append(fsPending, IF fsElement THEN "exit" ELSE "request")
                /\ fsOp' = FsOp("toggle", fsOp.cause)
                /\ UNCHANGED <<isFullscreen, fsElement, fsEvents>>
                /\ UNCHANGED <<captureVars, playbackVars, showGrid>>
           [] OTHER ->
                UNCHANGED <<captureVars, playbackVars, fullscreenVars, showGrid>>

\* The window receives keydown; the listener is the one of the container of
\* VideoContainer.tsx:293-640, registered while it is mounted (495-496).
KeyDown(code, focus) ==
    /\ page = "mounted"
    /\ backend # "youtube"
    /\ keyOp.n < MaxKeys
    /\ keyOp' = [code |-> code, focus |-> focus, n |-> keyOp.n + 1]
    /\ handleKeyDown(code, focus)
    /\ UNCHANGED <<overlayVars, drawVars, canvasVars, instanceVars>>

NextKeys ==
    \/ \E code \in KeyCodes : \E focus \in BOOLEAN : KeyDown(code, focus)
    \/ DurationChange
    \/ VideoLoaded

(* ---------------------------- overlay: claims --------------------------- *)

CyclesOf(i, pcs) == {l \in Loops : loops[l].inst = i /\ loops[l].pc \in pcs}

\* C5: an overlay has at most one estimatePoses call outstanding, and no
\* frame callback of it is pending while a call is outstanding: a cycle is
\* scheduled only once the one before it has finished.
C5_OneOutstandingEstimate ==
    \A i \in Instances :
        /\ Cardinality(CyclesOf(i, {"awaiting"})) <= 1
        /\ Cardinality(CyclesOf(i, {"awaiting", "scheduled"})) <= 1

\* C6: a loop whose effect has been torn down (by an unmount or by a re-run)
\* issues no estimatePoses call, draws nothing and requests no frame.
C6_TornLoopIsSilent ==
    poseAct.kind \in {"issue", "draw", "caught"} => ~loops[poseAct.loop].torn

\* The overlay is mounted on a video element and its detector is stored.
OverlayReady == pdMounted /\ videoElement # 0 /\ detectorRef[inst]

\* C7: once the overlay is mounted on a video and its detector is ready, the
\* estimation loop of the current effect eventually runs, and it keeps
\* running while the overlay stays so.
C7_LoopStartsAndKeepsRunning ==
    /\ OverlayReady ~> (~OverlayReady \/ effectLoop # 0)
    /\ [][(effectLoop # 0 /\ OverlayReady') => effectLoop' # 0]_vars

\* C8: the step in which estimatePoses of a loop throws draws nothing, leaves
\* the detector, the playback state and the capture state alone and requests
\* the next frame; the frame callback of a loop whose last call threw issues
\* the next estimatePoses call as long as the detector is stored.
C8_FailedCycleIsSkipped ==
    [][\A l \in Loops :
          /\ ( /\ loops[l].pc = "awaiting"
               /\ poseAct' = [kind |-> "caught", loop |-> l] )
             => /\ loops'[l].pc = "scheduled"
                /\ overlay' = overlay
                /\ detector' = detector /\ detectorRef' = detectorRef
                /\ notOverlay' = notOverlay
          /\ ( /\ loops[l].pc = "scheduled" /\ loops[l].failed
               /\ detectorRef[loops[l].inst]
               /\ poseAct'.loop = l /\ poseAct' # poseAct )
             => /\ loops'[l].pc = "awaiting"
                /\ poseAct'.kind = "issue"]_vars

\* A loop has drawn a frame in a cycle that followed one whose call threw.
C8_Witness ==
    \E l \in Loops :
        /\ loops[l].healed /\ ~loops[l].torn
        /\ poseAct = [kind |-> "draw", loop |-> l]

(* --------------------------- specifications ---------------------------- *)

\* The application mounts the native-video container.
Init ==
    /\ InitCapture /\ InitOverlay /\ backend = "native" /\ InitPlayback /\ InitView
    /\ InitDraw /\ InitCanvas /\ InitInstance

\* Either container.
InitEither ==
    /\ InitCapture /\ InitOverlay /\ backend \in {"native", "youtube"} /\ InitPlayback
    /\ InitView /\ InitDraw /\ InitCanvas /\ InitInstance

\* The shared capture stream under VideoContainer; the overlay is at rest.
SpecCapture == Init /\ [][NextCapture]_vars

\* One PoseDetection under an arbitrary parent; the container is at rest.
SpecOverlay == Init /\ [][NextOverlay]_vars

\* The native-video container over the InstructorVideo of WebcamFeed.tsx.
InitInstructor ==
    /\ InitCapture /\ InitOverlay /\ backend = "instructor" /\ InitPlayback /\ InitView
    /\ InitDraw /\ InitCanvas /\ InitInstance

SpecInstructor == InitInstructor /\ [][NextInstructor]_vars

\* The same, where the video element goes on loading its source.
FairSpecInstructor == SpecInstructor /\ WF_vars(IVLoads)

\* The playback handlers of either container; camera and overlay at rest.
SpecPlayback == InitEither /\ [][NextPlayback]_vars

\* The three components side by side: the camera is switched and its
\* requests settle, the native video loads, plays and fails, the overlay is
\* mounted and its detector and estimates succeed or fail.
NextIsolation ==
    \/ SetCameraEnabled
    \/ \E r \in Requests : SettleRequest(r, TRUE)
    \/ \E r \in Requests : SettleRequest(r, FALSE)
    \/ \E f \in Feeds : LoadedMetadata(f)
    \/ DurationChange
    \/ VideoLoaded
    \/ PlayPause
    \/ PlaySettles(TRUE)
    \/ VideoError
    \/ \E v \in Videos : PDMount(v)
    \/ \E v \in Videos : PDSetVideo(v)
    \/ \E i \in Instances : DetectorReady(i)
    \/ \E i \in Instances : DetectorFails(i)
    \/ \E l \in Loops : EstimateRejects(l)
    \/ \E l \in Loops : AnimationFrame(l)

SpecIsolation == Init /\ [][NextIsolation]_vars

\* The canvas of PoseDetection and the resolution of its video.
SpecCanvas == Init /\ [][NextCanvas]_vars

\* drawSkeleton over the poses.
InitDrawing ==
    /\ InitCapture /\ InitOverlay /\ backend = "native" /\ InitPlayback /\ InitView
    /\ InitPoses /\ InitCanvas /\ InitInstance

SpecDraw == InitDrawing /\ [][NextDraw]_vars

\* The keyboard of the native-video container.
SpecKeys == Init /\ [][NextKeys]_vars

\* The fullscreen toggle of either container.
SpecView == InitEither /\ [][NextView]_vars

\* The same, where the browser settles every promise and delivers every
\* event.
FairSpecView == SpecView /\ WF_vars(FullscreenSettled) /\ WF_vars(FullscreenChange)

\* The browser settles a getUserMedia request.
Settles == \E r \in Requests : SettleRequest(r, TRUE) \/ SettleRequest(r, FALSE)

\* The capture, where every request is settled in the end.
FairSpecCapture == SpecCapture /\ WF_vars(Settles)

\* The device or the browser ends the tracks of stream r: the camera is
\* unplugged or its permission withdrawn.  The stream is no longer active
\* (WebcamFeed.tsx:66); nothing in WebcamFeed listens for it.
TrackEnds(r) ==
    /\ page # "unloaded"
    /\ trackState[r] = "live"
    /\ trackState' = [trackState EXCEPT ![r] = "ended"]
    /\ capOp' = CapOp("ended", "none")
    /\ UNCHANGED <<layout, isCameraEnabled, webcamError, globalStream,
                   streamInitPromise, page, reqState, feed, outcomes, joined>>
    /\ UNCHANGED notCapture

NextDevice ==
    \/ NextCapture
    \/ \E r \in Requests : TrackEnds(r)

\* The capture, with a camera that can go away.
SpecDevice == Init /\ [][NextDevice]_vars

\* One WebcamFeed with a stream of its own under an arbitrary parent.
SpecInstance == Init /\ [][NextInstance]_vars

\* The same, where a pending promise settles and a requested frame runs.
FairSpecOverlay ==
    /\ SpecOverlay
    /\ WF_vars(LoopStep)
    /\ WF_vars(\E i \in Instances : DetectorReady(i) \/ DetectorFails(i))

(* ---------------------------- capture: claims --------------------------- *)

\* C1: however many getStream calls are made while a getUserMedia request is
\* in flight, a single hardware request is in flight, every suspended caller
\* waits on that request, and the callers of one acquisition all received
\* one and the same outcome: its stream handle or its failure.
C1_OneRequestOneOutcome ==
    /\ Cardinality(PendingIn(World)) <= 1
    /\ \A f \in Feeds : \A a \in feed[f].awaiting \cup feed[f].orphaned :
          reqState[a[1]] = "pending" /\ a[2] = a[1]
    /\ \A e \in Requests :
          /\ Cardinality(outcomes[e]) <= 1
          /\ outcomes[e] \subseteq {<<"stream", e>>, <<"error", e>>}

\* Both feeds called while one request was in flight and it succeeded, and
\* the same happened with a request that failed.
C1_Witness ==
    \E e1, e2 \in Requests :
        /\ joined[e1] = Feeds /\ outcomes[e1] = {<<"stream", e1>>}
        /\ joined[e2] = Feeds /\ outcomes[e2] = {<<"error", e2>>}

\* C2: a step that unmounts one consumer of the shared stream while another
\* consumer stays attached to it leaves the stream's tracks live and the
\* shared stream in place.
C2_UnmountKeepsSharedStream ==
    [][\A f, g \in Feeds :
          ( /\ f # g
            /\ globalStream # 0
            /\ trackState[globalStream] = "live"
            /\ feed[f].mounted /\ feed[f].srcObject = globalStream
            /\ feed[g].mounted /\ feed[g].srcObject = globalStream
            /\ ~feed'[f].mounted
            /\ feed'[g].mounted /\ feed'[g].srcObject = globalStream )
          => /\ trackState'[globalStream] = "live"
             /\ globalStream' = globalStream]_vars

\* C3: a layout switch made while the camera stays enabled and a stream is
\* active issues no hardware request and keeps the stream handle.
C3_LayoutSwitchKeepsStream ==
    [][( /\ layout' # layout
         /\ isCameraEnabled /\ isCameraEnabled'
         /\ globalStream # 0
         /\ trackState[globalStream] = "live" )
       => /\ reqState' = reqState
          /\ globalStream' = globalStream]_vars

\* C4: the step in which the camera is disabled stops the tracks of the
\* shared stream, whatever the layout.
C4_DisableStopsTracks ==
    [][( /\ isCameraEnabled /\ ~isCameraEnabled'
         /\ globalStream # 0
         /\ trackState[globalStream] = "live" )
       => trackState'[globalStream] = "stopped"]_vars

CaptureIdle ==
    /\ globalStream = 0
    /\ streamInitPromise = 0
    /\ \A r \in Requests : trackState[r] # "live"

\* C18: the last release frees the camera. Once the last WebcamFeed has
\* unmounted, and for as long as none mounts again, the capture eventually
\* is idle, whether the request was settled or in flight at the unmount;
\* and the next mount with the camera enabled makes a request of its own.
C18_LastReleaseFreesCamera ==
    /\ (page = "unmounted") ~> (page # "unmounted" \/ CaptureIdle)
    /\ [][(page = "unmounted" /\ page' = "mounted" /\ isCameraEnabled)
            => \E r \in Requests : reqState[r] = "unused" /\ reqState'[r] = "pending"]_vars

\* C19: page teardown resets the capture. Once beforeunload has been
\* handled, no track is live and the cached stream and the cached promise
\* are null, whatever the capture was doing and whoever was mounted.
C19_UnloadResetsCapture ==
    page = "unloaded" => CaptureIdle

\* The WebcamFeed at f shows the camera: enabled, loaded, without error,
\* with a live stream on its element.
FeedActive(f) ==
    /\ feed[f].mounted /\ feed[f].isEnabled
    /\ ~feed[f].error /\ ~feed[f].isLoading
    /\ feed[f].srcObject # 0
    /\ trackState[feed[f].srcObject] = "live"

\* The retry button of f is on the screen: the feed shows its error panel
\* (WebcamFeed.tsx:164-186) and its wrapper is not hidden
\* (VideoContainer.tsx:593-600).
RetryReachable(f) ==
    /\ feed[f].mounted /\ feed[f].error
    /\ f = "split" => layout = "split"

\* C23: capture errors are recoverable. While a WebcamFeed is active the
\* container reports no capture error, so that a failure followed by a
\* successful retry leaves none; and while the container reports a capture
\* error with no feed active, in either layout, some retry button is on
\* the screen.
C23_CaptureErrorRecoverable ==
    page = "mounted" =>
        /\ (\E f \in Feeds : FeedActive(f)) => ~webcamError
        /\ (webcamError /\ isCameraEnabled /\ ~\E f \in Feeds : FeedActive(f))
              => \E f \in Feeds : RetryReachable(f)

\* The WebcamFeed at f is enabled and shows its loading panel.
FeedLoading(f) ==
    page # "unloaded" /\ feed[f].mounted /\ feed[f].isEnabled /\ feed[f].isLoading

\* What can still end the loading of f: a request one of its calls awaits
\* is in flight (WebcamFeed.tsx:64), or a call waits at line 72 for the
\* metadata of the stream that is on the element.
LoadingCanEnd(f) ==
    \/ \E e \in feed[f].awaiting : reqState[e[1]] = "pending"
    \/ /\ feed[f].metaWaiter /\ feed[f].metaPending
       /\ feed[f].srcObject # 0

\* C26: an enabled feed does not load for ever. A WebcamFeed that is
\* enabled and shows its loading panel still has something to wait for: a
\* request in flight, or the metadata of the stream on its element; so
\* that, once the request has settled and the metadata has loaded, it is
\* active or shows its error.
C26_LoadingEnds ==
    \A f \in Feeds : FeedLoading(f) => LoadingCanEnd(f)

\* C27: a disabled feed holds no stream. A mounted WebcamFeed whose camera
\* is disabled has no stream on its video element and is not marked
\* stream-ready, whatever enable and disable toggles and whatever
\* acquisition in flight came before.
C27_DisabledHoldsNoStream ==
    \A f \in Feeds :
        (page # "unloaded" /\ feed[f].mounted /\ ~feed[f].isEnabled)
           => feed[f].srcObject = 0 /\ ~feed[f].streamReady

\* C29: a WebcamFeed with a stream of its own stops what it acquired.
\* While it is disabled or unmounted no stream it obtained has a live
\* track, also where the request resolved after the disable or the
\* unmount; and one enable makes one hardware request.
C29_InstanceStopsItsStreams ==
    /\ (~wf.mounted \/ ~wf.isEnabled) => \A r \in Acquisitions : wf.track[r] # "live"
    /\ wf.sinceEnable <= 1

(* --------------------------- playback: claims --------------------------- *)

\* C9: a seek clamps its target into [0, duration]. Once the duration of the
\* medium is known, a seek that acts on a target t leaves the position at t
\* clamped into [0, duration] (duration for t > duration, 0 for t < 0), and
\* it does not change the status: a medium that was playing and had not
\* ended is still playing and has not ended.
C9_SeekClampsTarget ==
    [][\A t \in SeekTargets :
          (/\ lastOp' = Op("seek", t)
           /\ lastOp' # lastOp
           /\ SeekActs
           /\ duration = MediaDuration)
          => /\ currentTime' = Clamp(t, 0, duration)
             /\ isPlaying' = isPlaying
             /\ (~isEnded => ~isEnded')]_vars

\* C10: seek wins within its tick. A time update of the media clock that
\* reaches the container after a manual seek, before the clock has moved
\* again, leaves the position at the position the seek asked the medium for.
C10_SeekWinsWithinTick ==
    [][(/\ lastOp'.op = "timeUpdate"
        /\ seekTick # -1
        /\ duration = MediaDuration)
       => currentTime' = seekTick]_vars

\* Whether handlePlayPause acts: a ready player without an error.
PlayPauseActs ==
    /\ backend # "instructor"
    /\ ~videoError
    /\ ~isVideoLoading
    /\ backend = "youtube" => youtubeVideoId /\ playerRef

\* C11: play and pause commands issued from a ready player without an error
\* only alternate the status between Playing and Paused. A play/pause
\* command turns Playing into Paused and anything else into Playing, it
\* never enters Ended, and neither the command nor the settling of the
\* play() promise that its pause() interrupted makes the player Errored.
C11_PlayPauseAlternates ==
    [][/\ (/\ lastOp' = Op("playPause", 0)
           /\ lastOp' # lastOp
           /\ PlayPauseActs)
          => /\ isPlaying' = ~isPlaying
             /\ isEnded' => isEnded
             /\ ~videoError'
       /\ (/\ lastOp'.op = "playAborted"
           /\ media.aborted = "playPause"
           /\ ~videoError)
          => ~videoError']_vars

\* C12: a play command issued while the video has ended resets first: after
\* it the position is 0, Ended is cleared and the video is playing; and no
\* step leads to a state where the video has ended and is playing.
C12_PlayFromEndedResets ==
    [][/\ (/\ lastOp' = Op("playPause", 0)
           /\ lastOp' # lastOp
           /\ PlayPauseActs
           /\ isEnded /\ ~isPlaying)
          => /\ currentTime' = 0
             /\ ~isEnded'
             /\ isPlaying'
       /\ ~(isEnded' /\ isPlaying')]_vars

\* C15: Errored is terminal until retry. While a video error is set and the
\* video is not playing, no step other than a retry clears the error or
\* starts playing; a retry clears the error and sets the video loading.
C15_ErroredUntilRetry ==
    [][/\ (/\ videoError /\ ~isPlaying
           /\ lastOp'.op # "retry")
          => videoError' /\ ~isPlaying'
       /\ (/\ videoError
           /\ lastOp'.op = "retry" /\ lastOp' # lastOp)
          => ~videoError' /\ isVideoLoading']_vars

\* C17: the video has ended only at its end and stopped. In every state
\* where isEnded holds, currentTime equals duration and isPlaying is false.
C17_EndedAtEndAndStopped ==
    isEnded => (currentTime = duration /\ ~isPlaying)

\* C16: a source that loads is not left loading. Once the media element
\* has loaded the source and can play, the container eventually is no
\* longer loading and has the duration of the medium.
C16_LoadLeadsToReady ==
    (media.status = "loaded") ~> (~isVideoLoading /\ duration = MediaDuration)

\* C28: an errored container is not playing. In every state of either
\* container a set videoError implies that isPlaying is false, whether the
\* error came as a rejected play() promise or as an error event of the
\* player while playing.
C28_ErrorStopsPlayback ==
    videoError => ~isPlaying

(* ---------------------------- fullscreen: claims ------------------------ *)

\* Nothing of the fullscreen machinery is under way: no promise pending, no
\* event waiting.
FullscreenQuiet == fsPending = <<>> /\ fsEvents = 0

\* C20: isFullscreen follows the browser. Whenever every fullscreen change
\* has been notified and every toggle has settled, isFullscreen tells whether
\* the document has a fullscreen element; a disagreement between the two
\* does not last; and the rejection of a request leaves isFullscreen as it
\* was.
C20_FullscreenResynchronized ==
    /\ [](FullscreenQuiet => (isFullscreen = fsElement))
    /\ (isFullscreen # fsElement) ~> (isFullscreen = fsElement)
    /\ [][(fsOp'.op = "rejected" /\ fsPending' # fsPending)
            => isFullscreen' = isFullscreen]_vars

\* The user has left fullscreen with Escape, the change has been notified,
\* and the container shows it.
C20_Witness ==
    /\ fsOp = FsOp("change", "escape")
    /\ FullscreenQuiet
    /\ ~fsElement
    /\ ~isFullscreen

\* The steps of a relative seek: those of the arrow keys and larger ones.
Deltas == {0 - ClockStep, 0 - SeekStep, SeekStep, ClockStep}

\* C24: a relative seek is a seek to position + delta. In every state of
\* the native container in which the duration is known, and for every
\* delta, handleSeekRelative(delta) and handleSeek([currentTime + delta])
\* give the same playback state.
C24_SeekRelativeIsSeek ==
    (backend = "native" /\ duration = MediaDuration) =>
        \A delta \in Deltas :
            handleSeekRelative(Player, delta) = handleSeek(Player, currentTime + delta)

\* C25: the canvas has the resolution of the video. Whenever a
\* PoseDetection is mounted over a video element whose resolution is known,
\* its canvas has that resolution, after the first metadata and after
\* every later change.
C25_CanvasMatchesVideo ==
    (pdMounted /\ videoElement # 0 /\ videoSize[videoElement] # 0)
        => canvasSize = videoSize[videoElement]

(* ---------------------------- drawSkeleton: claims ---------------------- *)

\* C22: the drawing threshold. Of a drawn pose, a keypoint has its point
\* on the canvas iff it has a score above ScoreThreshold, a score equal to
\* it giving no point, and each of the sixteen connections has its line iff
\* both its ends are keypoints with a score above ScoreThreshold.
C22_DrawnAboveThreshold ==
    drawn.done =>
        /\ Cardinality(connections) = 16
        /\ \A k \in KeypointNames :
              k \in drawn.points <=> (pose[k] # NoScore /\ pose[k] > ScoreThreshold)
        /\ \A c \in connections :
              c \in drawn.lines <=> /\ pose[c[1]] # NoScore /\ pose[c[1]] > ScoreThreshold
                                     /\ pose[c[2]] # NoScore /\ pose[c[2]] > ScoreThreshold

\* A drawn pose whose left elbow is exactly at the threshold: the shoulder
\* has its point, the elbow none, and the arm no line.
C22_Witness ==
    /\ drawn.done
    /\ pose["left_elbow"] = ScoreThreshold
    /\ pose["left_shoulder"] = 100
    /\ "left_shoulder" \in drawn.points
    /\ "left_elbow" \notin drawn.points
    /\ <<"left_shoulder", "left_elbow">> \notin drawn.lines
    /\ <<"left_shoulder", "right_shoulder">> \in drawn.lines

(* ----------------------------- keyboard: claims ------------------------ *)

\* C21: the keys act only with the focus inside the container. A keydown
\* with the focus outside leaves playback, layout, grid and fullscreen as
\* they were; with the focus inside, Space toggles play/pause of a ready
\* player, ArrowLeft and ArrowRight move the position by SeekStep within
\* [0, duration], Home and End move it to 0 and to the duration, R resets,
\* G toggles the grid, L the layout, and F asks the browser for the other
\* fullscreen state.
C21_KeysActOnlyWithFocus ==
    [][keyOp'.n # keyOp.n =>
        LET code == keyOp'.code IN
        /\ ~keyOp'.focus =>
              UNCHANGED <<isPlaying, currentTime, duration, videoError, isEnded,
                          isVideoLoading, media, layout, showGrid, isFullscreen,
                          fsElement, fsPending>>
        /\ (keyOp'.focus /\ ~videoError) =>
              /\ (code = "Space" /\ ~isVideoLoading) => isPlaying' = ~isPlaying
              /\ code = "ArrowLeft" =>
                    currentTime' = Clamp(currentTime - SeekStep, 0, duration)
              /\ code = "ArrowRight" =>
                    currentTime' = Clamp(currentTime + SeekStep, 0, duration)
              /\ code = "Home" => currentTime' = 0
              /\ code = "End" => currentTime' = duration
              /\ code = "KeyR" => (currentTime' = 0 /\ ~isPlaying' /\ ~isEnded')
              /\ code \in {"ArrowLeft", "ArrowRight", "Home", "End"} =>
                    media'.time = Clamp(currentTime', 0, MediaDuration)
        /\ keyOp'.focus =>
              /\ code = "KeyG" => showGrid' = ~showGrid
              /\ code = "KeyL" => layout' # layout
              /\ code = "KeyF" =>
                    fsPending' = Append(fsPending, IF fsElement THEN "exit" ELSE "request")
       ]_vars

\* Space with the focus inside has started the video, a later Space with
\* the focus elsewhere has left it playing.
C21_Witness ==
    /\ keyOp.code = "Space"
    /\ ~keyOp.focus
    /\ keyOp.n >= 2
    /\ isPlaying
    /\ lastOp.op = "playPause"

(* ------------------------- claims across components --------------------- *)

\* The state of the capture and of the playback, without the history.
captureState == <<layout, isCameraEnabled, webcamError, globalStream,
                  streamInitPromise, page, reqState, trackState, feed>>

playbackState == <<isPlaying, currentTime, duration, videoError, isEnded,
                   isVideoLoading, youtubeVideoId, playerRef, media, iv>>

\* C14: failure isolation. The step in which a video error is raised leaves
\* the state of the capture, its error flag included, unchanged; the step in
\* which a camera request fails leaves the playback state unchanged; the
\* step in which the detector fails to initialize or an estimate throws
\* leaves both unchanged.
C14_FailureIsolation ==
    [][/\ (~videoError /\ videoError')
          => captureState' = captureState
       /\ (\E r \in Requests : reqState[r] = "pending" /\ reqState'[r] = "rejected")
          => playbackState' = playbackState
       /\ (\/ \E i \in Instances : detector[i] = "loading" /\ detector'[i] = "failed"
           \/ poseAct'.kind = "caught" /\ poseAct' # poseAct)
          => /\ captureState' = captureState
             /\ playbackState' = playbackState]_vars

\* The video has failed, a camera request has failed and an estimate has
\* thrown, all in one run, and the loop goes on.
C14_Witness ==
    /\ videoError /\ lastOp.op = "error"
    /\ webcamError /\ capOp.op = "rejected"
    /\ \E l \in Loops : loops[l].failed /\ loops[l].pc = "scheduled"

====
